---- MODULE Spec2Model ----
(***************************************************************************)
(* Incident detector (src/incident_detector/main.py): the poll loop that   *)
(* correlates the latest rollout of one deployment with the error count,   *)
(* deduplicates on the last incident revision, notifies and emits, and the *)
(* /status handler that reads the shared State while the loop writes it.   *)
(*                                                                         *)
(* Time is an integer clock (one unit is one minute).  A Python Optional   *)
(* is a sequence of length 0 (None) or 1.  A call that may raise returns a *)
(* record [raised, value]: raised is "" or the exception's name.           *)
(***************************************************************************)
EXTENDS Integers, Sequences, FiniteSets, TLC

\* ------------------------------------------------------------- bounds
MaxTime == 1
MaxCount == 2
MaxThreshold == 2
MaxWindow == 1
MaxItems == 3

\* ---------------------------------------------------------- constants
ERROR_WINDOW_MINUTES == 2

Revisions == {"1", "2"}
Thresholds == 0..MaxThreshold
Windows == 0..MaxWindow

None == <<>>
Some(x) == <<x>>

Ok(v) == [raised |-> "", value |-> v]
Raise(exc) == [raised |-> exc, value |-> None]

\* ------------------------------------------------------ configuration
Config ==
    [namespace : {"demo-aiops"},
     target_deployment : {"payments-api"},
     loki_url : {"", "http://loki"},
     error_threshold : Thresholds,
     rollout_window_minutes : Windows,
     slack_webhook_url : {None, Some(""), Some("https://hooks")},
     loki_label_app : {"payments-api"}]

\* ------------------------------------------------------------ datetime
\* A datetime is [t, aware]; comparing an aware with a naive one raises.
utcnow(clock) == [t |-> clock, aware |-> TRUE]

isoformat(dt) == [iso |-> dt.t, tz |-> IF dt.aware THEN "+00:00" ELSE ""]

\* A timestamp string of the payload: [form, t], form one of "Z" (UTC,
\* Z-suffixed), "offset" (+00:00), "naive" (no zone), "bad" (unparseable).
parse_rfc3339(timestamp) ==
    IF timestamp.form = "bad" THEN Raise("ValueError")
    ELSE Ok(Some([t |-> timestamp.t, aware |-> timestamp.form # "naive"]))

\* ------------------------------------------------- rollout source (k8s)
\* A response of the Kubernetes API: error is "" or the failure of the
\* call (credentials file, transport, HTTP status); items the ReplicaSets.
kube_request(response) ==
    IF response.error # "" THEN Raise(response.error)
    ELSE Ok(Some(response.items))

\* Mutant: any Deployment among the owners will do, whatever its name.
owned_by_deployment_AnyName(replica, deployment) ==
    \E j \in 1..Len(replica.ownerReferences) :
        replica.ownerReferences[j].kind = "Deployment"

owned_by_deployment(replica, deployment) ==
    \E j \in 1..Len(replica.ownerReferences) :
        /\ replica.ownerReferences[j].kind = "Deployment"
        /\ replica.ownerReferences[j].name = deployment

\* "not x" of an optional string: absent or empty.
falsy(opt, empty) == opt = None \/ opt = Some(empty)

EmptyTimestamp == [form |-> "", t |-> 0]

\* The loop of fetch_rollout_info over replicasets[i..]; latest is the pair
\* (latest_revision, latest_time), None while both are None.
RECURSIVE rollout_loop(_, _, _, _)
rollout_loop(replicasets, i, deployment, latest) ==
    IF i > Len(replicasets) THEN Ok(latest)
    ELSE LET replica == replicasets[i] IN
         IF ~owned_by_deployment(replica, deployment)
         THEN rollout_loop(replicasets, i + 1, deployment, latest)
         ELSE IF falsy(replica.revision, "") \/ falsy(replica.created_at, EmptyTimestamp)
         THEN rollout_loop(replicasets, i + 1, deployment, latest)
         ELSE LET parsed == parse_rfc3339(replica.created_at[1]) IN
              IF parsed.raised # "" THEN Raise(parsed.raised)
              ELSE LET created_time == parsed.value[1]
                       newer == Some([revision |-> replica.revision[1],
                                      time |-> created_time])
                   IN IF latest = None
                      THEN rollout_loop(replicasets, i + 1, deployment, newer)
                      ELSE IF created_time.aware # latest[1].time.aware
                      THEN Raise("TypeError")
                      ELSE IF created_time.t > latest[1].time.t
                      THEN rollout_loop(replicasets, i + 1, deployment, newer)
                      ELSE rollout_loop(replicasets, i + 1, deployment, latest)

fetch_rollout_info(response, deployment) ==
    LET got == kube_request(response) IN
    IF got.raised # "" THEN Raise(got.raised)
    ELSE rollout_loop(got.value[1], 1, deployment, None)

\* ------------------------------------------------- error source (Loki)
\* A value of the series is [kind, halves]: kind "num" is the decimal text
\* of halves/2, "text" non-numeric text, "nan", "inf", "null" (not a string).
float_(v) ==
    CASE v.kind = "num" -> Ok(Some([kind |-> "finite", halves |-> v.halves]))
      [] v.kind = "nan" -> Ok(Some([kind |-> "nan", halves |-> 0]))
      [] v.kind = "inf" -> Ok(Some([kind |-> "inf", halves |-> 0]))
      [] v.kind = "null" -> Raise("TypeError")
      [] OTHER -> Raise("ValueError")

\* int() of a float: truncation toward zero (halves >= 0 here).
int_(f) ==
    CASE f.kind = "finite" -> Ok(Some(f.halves \div 2))
      [] f.kind = "nan" -> Raise("ValueError")
      [] OTHER -> Raise("OverflowError")

int_float(latest_value) ==
    LET f == float_(latest_value) IN
    IF f.raised # "" THEN Raise(f.raised) ELSE int_(f.value[1])

\* A response of Loki: error is "" or the failure of the call; results the
\* series of data.result, each a sequence of values (oldest first).
fetch_error_count(cfg, response) ==
    IF cfg.loki_url = "" THEN Ok(Some(0))
    ELSE IF response.error # "" THEN Raise(response.error)
    ELSE IF response.results = <<>> THEN Ok(Some(0))
    ELSE LET values == response.results[1] IN
         IF values = <<>> THEN Ok(Some(0))
         ELSE LET got == int_float(values[Len(values)]) IN
              IF got.raised = "ValueError" THEN Ok(Some(0)) ELSE got

\* ------------------------------------------------------------ incident
build_incident(cfg, revision, rollout_time, error_count, clock) ==
    [incident_id |-> <<cfg.namespace, cfg.target_deployment, revision>>,
     namespace |-> cfg.namespace,
     deployment |-> cfg.target_deployment,
     revision |-> revision,
     rollout_time |-> isoformat(rollout_time),
     error_count |-> error_count,
     error_window_minutes |-> ERROR_WINDOW_MINUTES,
     detected_at |-> isoformat(utcnow(clock)),
     signal |-> <<"Error logs spiked to", error_count>>,
     impact |-> <<"Customers may be seeing failures from", cfg.target_deployment>>,
     recommended_action |-> <<"Rollback deployment", cfg.target_deployment>>]

format_slack_message(incident) ==
    <<"Deployment regression detected.", incident.signal, incident.revision,
      incident.rollout_time, incident.impact, incident.recommended_action>>

\* ------------------------------------------------------------ notifier
\* http is the outcome of requests.post: error is "" or the transport
\* failure, status_code the HTTP status.  posted tells whether the call was
\* made.  A status string is [text, arg].
Skipped == [text |-> "skipped (no webhook configured)", arg |-> ""]
Sent(status_code) == [text |-> "sent", arg |-> ToString(status_code)]
Error(exc) == [text |-> "error", arg |-> exc]

\* Mutant: only an absent webhook is skipped ("is None" for "not").
send_slack_notification_NoneOnly(webhook_url, incident, http) ==
    IF webhook_url = None
    THEN [raised |-> "", value |-> Some(Skipped), posted |-> FALSE]
    ELSE IF http.error # ""
    THEN [raised |-> http.error, value |-> None, posted |-> TRUE]
    ELSE IF http.status_code >= 400
    THEN [raised |-> "HTTPError", value |-> None, posted |-> TRUE]
    ELSE [raised |-> "", value |-> Some(Sent(http.status_code)), posted |-> TRUE]

send_slack_notification(webhook_url, incident, http) ==
    IF falsy(webhook_url, "")
    THEN [raised |-> "", value |-> Some(Skipped), posted |-> FALSE]
    ELSE IF http.error # ""
    THEN [raised |-> http.error, value |-> None, posted |-> TRUE]
    ELSE IF http.status_code >= 400
    THEN [raised |-> "HTTPError", value |-> None, posted |-> TRUE]
    ELSE [raised |-> "", value |-> Some(Sent(http.status_code)), posted |-> TRUE]

\* ----------------------------------------------------------- evaluator
\* Mutant: the window edge itself counts as stale ("<=" for "<").
should_trigger_incident_EdgeStale(cfg, rollout, error_count, clock) ==
    IF rollout = None THEN Ok(None)
    ELSE LET revision == rollout[1].revision
             rollout_time == rollout[1].time
             window_start == [t |-> clock - cfg.rollout_window_minutes,
                              aware |-> TRUE]
         IN IF rollout_time.aware # window_start.aware THEN Raise("TypeError")
            ELSE IF rollout_time.t <= window_start.t THEN Ok(None)
            ELSE IF error_count < cfg.error_threshold THEN Ok(None)
            ELSE Ok(Some([revision |-> revision, time |-> rollout_time]))

should_trigger_incident(cfg, rollout, error_count, clock) ==
    IF rollout = None THEN Ok(None)
    ELSE LET revision == rollout[1].revision
             rollout_time == rollout[1].time
             window_start == [t |-> clock - cfg.rollout_window_minutes,
                              aware |-> TRUE]
         IN IF rollout_time.aware # window_start.aware THEN Raise("TypeError")
            ELSE IF rollout_time.t < window_start.t THEN Ok(None)
            ELSE IF error_count < cfg.error_threshold THEN Ok(None)
            ELSE Ok(Some([revision |-> revision, time |-> rollout_time]))

\* --------------------------------------------------------- environment
OwnerRef(name) == [kind |-> "Deployment", name |-> name]

\* A ReplicaSet of the deployment, well-formed, created at t.
Replica(revision, t) ==
    [ownerReferences |-> <<OwnerRef("payments-api")>>,
     revision |-> Some(revision),
     created_at |-> Some([form |-> "Z", t |-> t])]

\* ReplicaSets the loop skips: another deployment's, one with no revision
\* annotation, one with no timestamp.
OddReplicas(clock) ==
    {[Replica("2", clock) EXCEPT !.ownerReferences = <<OwnerRef("other")>>],
     [Replica("2", clock) EXCEPT !.revision = None],
     [Replica("2", clock) EXCEPT !.created_at = None]}

Replicas(clock) ==
    {Replica(r, t) : r \in Revisions, t \in 0..clock} \cup OddReplicas(clock)

KubeResponses(clock) ==
    {[error |-> "HTTPError", items |-> <<>>]}
    \cup {[error |-> "", items |-> items] :
            items \in {<<>>} \cup {<<a>> : a \in Replicas(clock)}
                      \cup {<<a, b>> : a, b \in Replicas(clock)}}

LokiValues ==
    {[kind |-> "num", halves |-> h] : h \in 0..(2 * MaxCount + 1)}
    \cup {[kind |-> k, halves |-> 0] : k \in {"text", "nan"}}

LokiResponses ==
    {[error |-> "HTTPError", results |-> <<>>],
     [error |-> "", results |-> <<>>],
     [error |-> "", results |-> << <<>> >>]}
    \cup {[error |-> "", results |-> << <<v>> >>] : v \in LokiValues}
    \cup {[error |-> "", results |-> << <<[kind |-> "num", halves |-> 0], v>> >>] :
            v \in LokiValues}

HttpOutcomes ==
    {[error |-> "HTTPError", status_code |-> 0],
     [error |-> "", status_code |-> 200],
     [error |-> "", status_code |-> 500]}

\* --------------------------------------------------------------- state
VARIABLES
    config,     \* Config, loaded once
    state,      \* State, shared by the poll loop and the status handler
    now,        \* the clock
    pc,         \* the poll loop's position
    loc,        \* the poll loop's local variables; None: not assigned in this cycle
    cyc,        \* history of the current cycle
    hist,       \* history of the process: what was built and written
    spc,        \* the status handler's position
    snap,       \* the payload the status handler is building
    call        \* the call of a function taken alone: arguments and result

reader == <<spc, snap, call>>
vars == <<config, state, now, pc, loc, cyc, hist, spc, snap, call>>

State0 ==
    [last_poll_time |-> None,
     last_error_count |-> None,
     last_rollout_revision |-> None,
     last_rollout_time |-> None,
     last_incident_revision |-> None,
     last_incident |-> None,
     last_slack_status |-> None]

Locals0 ==
    [rollout |-> None, error_count |-> None, rollout_time |-> None,
     trigger |-> None, revision |-> None, incident |-> None,
     slack_status |-> None, exc |-> ""]

\* What one cycle did so far: the State it started from, the revisions whose
\* notification had raised with no incident recorded since, whether each fetch
\* returned, the verdict, and the incidents built, notification attempts,
\* network calls and records written.
Cycle0(st) ==
    [start |-> st, pending |-> {}, fetched_rollout |-> FALSE, fetched |-> FALSE,
     polled_at |-> None, evaluated |-> FALSE, verdict |-> None,
     key_at_check |-> None, built |-> 0, attempts |-> 0, posted |-> 0,
     notify_raised |-> FALSE, recorded |-> FALSE, emitted |-> 0, failed |-> ""]

\* Counters of one cycle saturate at 2: the claims tell 0, 1 and "more".
Sat(n) == IF n > 2 THEN 2 ELSE n

\* What the process did so far: the revisions an incident was built for, the
\* revisions a record was written for, the last record written, the verdict
\* of the cycle before the current one, the number of times the dedup key was
\* set less the number of records written, and the revisions for which a
\* notification raised and no incident was recorded since.
Hist0 ==
    [built_revs |-> {}, emitted_revs |-> {}, stdout_last |-> None,
     prev_verdict |-> None, unemitted |-> 0, pending |-> {}]

\* No function is being called alone.
NoCall == [fn |-> "", arg |-> None, done |-> FALSE, result |-> None]

\* The configuration of the main specification: both sources and the
\* webhook configured.
MainConfig ==
    {c \in Config : c.loki_url # "" /\ c.error_threshold = 1
                    /\ c.rollout_window_minutes = 0
                    /\ c.slack_webhook_url = Some("https://hooks")}

\* The process after construction (lines 255-257), started at one of the
\* instants of clocks with one of the configurations of configs.
Start(configs, clocks) ==
    /\ config \in configs
    /\ state = State0
    /\ now \in clocks
    /\ pc = "fetch_rollout"
    /\ loc = Locals0
    /\ cyc = Cycle0(State0)
    /\ hist = Hist0
    /\ spc = "idle"
    /\ snap = State0
    /\ call = NoCall

Init == Start(MainConfig, 0..MaxTime)

\* ----------------------------------------------------------- poll_loop
\* An exception anywhere in the try body lands in the except clause.
Raised(exc) ==
    /\ pc' = "except"
    /\ loc' = [loc EXCEPT !.exc = exc]

\* Mutant: a failure of the rollout fetch is swallowed and the cycle goes on
\* with the rollout it has.
FetchRollout_KeepsOnFailure ==
    /\ pc = "fetch_rollout"
    /\ \E response \in KubeResponses(now) :
         LET got == fetch_rollout_info(response, config.target_deployment) IN
         IF got.raised # ""
         THEN /\ pc' = "fetch_error_count"
              /\ UNCHANGED <<loc, cyc>>
         ELSE /\ pc' = "fetch_error_count"
              /\ loc' = [loc EXCEPT !.rollout = got.value]
              /\ cyc' = [cyc EXCEPT !.fetched_rollout = TRUE]
    /\ UNCHANGED <<reader, config, state, now, hist>>

\* line 233
FetchRollout ==
    /\ pc = "fetch_rollout"
    /\ \E response \in KubeResponses(now) :
         LET got == fetch_rollout_info(response, config.target_deployment) IN
         IF got.raised # ""
         THEN /\ Raised(got.raised)
              /\ cyc' = [cyc EXCEPT !.failed = "fetch_rollout"]
         ELSE /\ pc' = "fetch_error_count"
              /\ loc' = [loc EXCEPT !.rollout = got.value]
              /\ cyc' = [cyc EXCEPT !.fetched_rollout = TRUE]
    /\ UNCHANGED <<reader, config, state, now, hist>>

\* line 234
FetchErrorCount ==
    /\ pc = "fetch_error_count"
    /\ \E response \in LokiResponses :
         LET got == fetch_error_count(config, response) IN
         IF got.raised # ""
         THEN /\ Raised(got.raised)
              /\ cyc' = [cyc EXCEPT !.failed = "fetch_error_count"]
         ELSE /\ pc' = "record_poll"
              /\ loc' = [loc EXCEPT !.error_count = got.value]
              /\ cyc' = [cyc EXCEPT !.fetched = TRUE]
    /\ UNCHANGED <<reader, config, state, now, hist>>

\* Mutant: recording a poll also clears the stored incident.
RecordPoll_ClearsIncident ==
    /\ pc = "record_poll"
    /\ state' = [state EXCEPT
                   !.last_poll_time = Some(isoformat(utcnow(now))),
                   !.last_error_count = loc.error_count,
                   !.last_rollout_revision =
                       IF loc.rollout # None THEN Some(loc.rollout[1].revision) ELSE @,
                   !.last_rollout_time =
                       IF loc.rollout # None THEN Some(isoformat(loc.rollout[1].time)) ELSE @,
                   !.last_incident = None]
    /\ loc' = [loc EXCEPT !.rollout_time =
                 IF loc.rollout # None THEN Some(loc.rollout[1].time) ELSE @]
    /\ cyc' = [cyc EXCEPT !.polled_at = Some(now)]
    /\ pc' = "evaluate"
    /\ UNCHANGED <<reader, config, now, hist>>

\* Mutant: the whole recording sits under the test of line 237, so a cycle
\* that found no rollout records neither the poll time nor the count.
RecordPoll_OnlyWithRollout ==
    /\ pc = "record_poll"
    /\ state' = IF loc.rollout = None THEN state ELSE
                 [state EXCEPT
                   !.last_poll_time = Some(isoformat(utcnow(now))),
                   !.last_error_count = loc.error_count,
                   !.last_rollout_revision = Some(loc.rollout[1].revision),
                   !.last_rollout_time = Some(isoformat(loc.rollout[1].time))]
    /\ loc' = [loc EXCEPT !.rollout_time =
                 IF loc.rollout # None THEN Some(loc.rollout[1].time) ELSE @]
    /\ cyc' = [cyc EXCEPT !.polled_at = Some(now)]
    /\ pc' = "evaluate"
    /\ UNCHANGED <<reader, config, now, hist>>

\* lines 235-239: the last-poll fields
RecordPoll ==
    /\ pc = "record_poll"
    /\ state' = [state EXCEPT
                   !.last_poll_time = Some(isoformat(utcnow(now))),
                   !.last_error_count = loc.error_count,
                   !.last_rollout_revision =
                       IF loc.rollout # None THEN Some(loc.rollout[1].revision) ELSE @,
                   !.last_rollout_time =
                       IF loc.rollout # None THEN Some(isoformat(loc.rollout[1].time)) ELSE @]
    /\ loc' = [loc EXCEPT !.rollout_time =
                 IF loc.rollout # None THEN Some(loc.rollout[1].time) ELSE @]
    /\ cyc' = [cyc EXCEPT !.polled_at = Some(now)]
    /\ pc' = "evaluate"
    /\ UNCHANGED <<reader, config, now, hist>>

\* Mutant: no dedup check, every trigger builds an incident.
Evaluate_NoDedup ==
    /\ pc = "evaluate"
    /\ LET got == should_trigger_incident(config, loc.rollout, loc.error_count[1], now) IN
       IF got.raised # ""
       THEN /\ Raised(got.raised)
            /\ cyc' = [cyc EXCEPT !.failed = "evaluate"]
       ELSE IF got.value = None
       THEN /\ pc' = "sleep"
            /\ loc' = [loc EXCEPT !.trigger = None]
            /\ cyc' = [cyc EXCEPT !.evaluated = TRUE]
       ELSE /\ pc' = "build"
            /\ loc' = [loc EXCEPT !.trigger = got.value,
                                  !.revision = Some(got.value[1].revision),
                                  !.rollout_time = Some(got.value[1].time)]
            /\ cyc' = [cyc EXCEPT !.evaluated = TRUE,
                                  !.verdict = Some(got.value[1].revision),
                                  !.key_at_check = state.last_incident_revision]
    /\ UNCHANGED <<reader, config, state, now, hist>>

\* lines 240-243: the verdict, then the dedup check against the key
Evaluate ==
    /\ pc = "evaluate"
    /\ LET got == should_trigger_incident(config, loc.rollout, loc.error_count[1], now) IN
       IF got.raised # ""
       THEN /\ Raised(got.raised)
            /\ cyc' = [cyc EXCEPT !.failed = "evaluate"]
       ELSE IF got.value = None
       THEN /\ pc' = "sleep"
            /\ loc' = [loc EXCEPT !.trigger = None]
            /\ cyc' = [cyc EXCEPT !.evaluated = TRUE]
       ELSE /\ pc' = IF Some(got.value[1].revision) # state.last_incident_revision
                     THEN "build" ELSE "sleep"
            /\ loc' = [loc EXCEPT !.trigger = got.value,
                                  !.revision = Some(got.value[1].revision),
                                  !.rollout_time = Some(got.value[1].time)]
            /\ cyc' = [cyc EXCEPT !.evaluated = TRUE,
                                  !.verdict = Some(got.value[1].revision),
                                  !.key_at_check = state.last_incident_revision]
    /\ UNCHANGED <<reader, config, state, now, hist>>

\* Mutant: an incident is built and notified once per revision only; a
\* revision that was built before goes to sleep.
BuildIncident_OncePerRevision ==
    /\ pc = "build"
    /\ IF loc.revision[1] \in hist.built_revs
       THEN /\ pc' = "sleep"
            /\ UNCHANGED <<loc, cyc, hist>>
       ELSE /\ loc' = [loc EXCEPT !.incident =
                        Some(build_incident(config, loc.revision[1],
                                            loc.rollout_time[1],
                                            loc.error_count[1], now))]
            /\ cyc' = [cyc EXCEPT !.built = Sat(@ + 1)]
            /\ hist' = [hist EXCEPT !.built_revs = @ \cup {loc.revision[1]}]
            /\ pc' = "notify"
    /\ UNCHANGED <<reader, config, state, now>>

\* line 244
BuildIncident ==
    /\ pc = "build"
    /\ loc' = [loc EXCEPT !.incident =
                 Some(build_incident(config, loc.revision[1], loc.rollout_time[1],
                                     loc.error_count[1], now))]
    /\ cyc' = [cyc EXCEPT !.built = Sat(@ + 1)]
    /\ hist' = [hist EXCEPT !.built_revs = @ \cup {loc.revision[1]}]
    /\ pc' = "notify"
    /\ UNCHANGED <<reader, config, state, now>>

\* Mutant: the dedup key is set before the notification is sent.
Notify_KeyFirst ==
    /\ pc = "notify"
    /\ state' = [state EXCEPT !.last_incident_revision = loc.revision]
    /\ \E http \in HttpOutcomes :
         LET got == send_slack_notification(config.slack_webhook_url,
                                            loc.incident[1], http) IN
         /\ cyc' = [cyc EXCEPT !.attempts = Sat(@ + 1),
                               !.posted = Sat(@ + (IF got.posted THEN 1 ELSE 0)),
                               !.notify_raised = (got.raised # ""),
                               !.failed = IF got.raised # "" THEN "notify" ELSE @]
         /\ IF got.raised # ""
            THEN /\ Raised(got.raised)
                 /\ hist' = [hist EXCEPT !.pending = @ \cup {loc.revision[1]}]
            ELSE /\ pc' = "set_incident_revision"
                 /\ loc' = [loc EXCEPT !.slack_status = got.value]
                 /\ UNCHANGED hist
    /\ UNCHANGED <<reader, config, now>>

\* line 245
Notify ==
    /\ pc = "notify"
    /\ \E http \in HttpOutcomes :
         LET got == send_slack_notification(config.slack_webhook_url,
                                            loc.incident[1], http) IN
         /\ cyc' = [cyc EXCEPT !.attempts = Sat(@ + 1),
                               !.posted = Sat(@ + (IF got.posted THEN 1 ELSE 0)),
                               !.notify_raised = (got.raised # ""),
                               !.failed = IF got.raised # "" THEN "notify" ELSE @]
         /\ IF got.raised # ""
            THEN /\ Raised(got.raised)
                 /\ hist' = [hist EXCEPT !.pending = @ \cup {loc.revision[1]}]
            ELSE /\ pc' = "set_incident_revision"
                 /\ loc' = [loc EXCEPT !.slack_status = got.value]
                 /\ UNCHANGED hist
    /\ UNCHANGED <<reader, config, state, now>>

\* line 246
SetIncidentRevision ==
    /\ pc = "set_incident_revision"
    /\ state' = [state EXCEPT !.last_incident_revision = loc.revision]
    /\ cyc' = [cyc EXCEPT !.recorded = TRUE]
    /\ hist' = [hist EXCEPT !.unemitted = @ + 1,
                            !.pending = @ \ {loc.revision[1]}]
    /\ pc' = "set_incident"
    /\ UNCHANGED <<reader, config, now, loc>>

\* line 247
SetIncident ==
    /\ pc = "set_incident"
    /\ state' = [state EXCEPT !.last_incident = loc.incident]
    /\ pc' = "set_slack_status"
    /\ UNCHANGED <<reader, config, now, loc, cyc, hist>>

\* line 248
SetSlackStatus ==
    /\ pc = "set_slack_status"
    /\ state' = [state EXCEPT !.last_slack_status = loc.slack_status]
    /\ pc' = "emit"
    /\ UNCHANGED <<reader, config, now, loc, cyc, hist>>

\* line 249: one JSON object on standard output
Emit ==
    /\ pc = "emit"
    /\ hist' = [hist EXCEPT !.emitted_revs = @ \cup {loc.incident[1].revision},
                            !.stdout_last = loc.incident,
                            !.unemitted = @ - 1]
    /\ cyc' = [cyc EXCEPT !.emitted = Sat(@ + 1)]
    /\ pc' = "sleep"
    /\ UNCHANGED <<reader, config, state, now, loc>>

\* Mutant: the except clause also stamps the poll time.
Except_StampsPoll ==
    /\ pc = "except"
    /\ state' = [state EXCEPT !.last_slack_status = Some(Error(loc.exc)),
                              !.last_poll_time = Some(isoformat(utcnow(now)))]
    /\ pc' = "sleep"
    /\ UNCHANGED <<reader, config, now, loc, cyc, hist>>

\* Mutant: the except clause writes the record of the incident the cycle
\* built, though nothing was recorded.
Except_EmitsRecord ==
    /\ pc = "except"
    /\ state' = [state EXCEPT !.last_slack_status = Some(Error(loc.exc))]
    /\ IF loc.incident = None
       THEN UNCHANGED <<cyc, hist>>
       ELSE /\ hist' = [hist EXCEPT
                          !.emitted_revs = @ \cup {loc.incident[1].revision},
                          !.stdout_last = loc.incident,
                          !.unemitted = @ - 1]
            /\ cyc' = [cyc EXCEPT !.emitted = Sat(@ + 1)]
    /\ pc' = "sleep"
    /\ UNCHANGED <<reader, config, now, loc>>

\* Mutant: the except clause sets the dedup key to the revision the cycle
\* triggered for.
Except_SetsKey ==
    /\ pc = "except"
    /\ state' = [state EXCEPT
                   !.last_slack_status = Some(Error(loc.exc)),
                   !.last_incident_revision = IF loc.revision # None
                                              THEN loc.revision ELSE @]
    /\ pc' = "sleep"
    /\ UNCHANGED <<reader, config, now, loc, cyc, hist>>

\* lines 250-251
Except ==
    /\ pc = "except"
    /\ state' = [state EXCEPT !.last_slack_status = Some(Error(loc.exc))]
    /\ pc' = "sleep"
    /\ UNCHANGED <<reader, config, now, loc, cyc, hist>>

\* Mutant: the loop is left after a cycle that failed.
Sleep_BreaksOnFailure ==
    /\ pc = "sleep"
    /\ pc' = IF cyc.failed # "" THEN "exit" ELSE "fetch_rollout"
    /\ hist' = [hist EXCEPT !.prev_verdict = cyc.verdict]
    /\ cyc' = [Cycle0(state) EXCEPT !.pending = hist.pending]
    /\ loc' = Locals0
    /\ UNCHANGED <<reader, config, state, now>>

\* line 252, and back to the top of the while loop.  Python keeps the
\* locals' values; here a local not yet assigned in the new cycle is None,
\* so that a read of a value left by an earlier cycle shows as a read of None.
Sleep ==
    /\ pc = "sleep"
    /\ pc' = "fetch_rollout"
    /\ hist' = [hist EXCEPT !.prev_verdict = cyc.verdict]
    /\ cyc' = [Cycle0(state) EXCEPT !.pending = hist.pending]
    /\ loc' = Locals0
    /\ UNCHANGED <<reader, config, state, now>>

\* Time passes, at any point of the loop.
Tick ==
    /\ now < MaxTime
    /\ now' = now + 1
    /\ UNCHANGED <<reader, config, state, pc, loc, cyc, hist>>

\* ------------------------------------------------------ status handler
\* GET /status arrives: the handler starts building the payload.
StatusBegin ==
    /\ spc = "idle"
    /\ spc' = "read_poll"
    /\ snap' = State0
    /\ UNCHANGED <<config, state, now, pc, loc, cyc, hist, call>>

\* lines 280-283
StatusReadPoll ==
    /\ spc = "read_poll"
    /\ snap' = [snap EXCEPT !.last_poll_time = state.last_poll_time,
                            !.last_error_count = state.last_error_count,
                            !.last_rollout_revision = state.last_rollout_revision,
                            !.last_rollout_time = state.last_rollout_time]
    /\ spc' = "read_incident_revision"
    /\ UNCHANGED <<config, state, now, pc, loc, cyc, hist, call>>

\* line 284
StatusReadIncidentRevision ==
    /\ spc = "read_incident_revision"
    /\ snap' = [snap EXCEPT !.last_incident_revision = state.last_incident_revision]
    /\ spc' = "test_incident"
    /\ UNCHANGED <<config, state, now, pc, loc, cyc, hist, call>>

\* line 285, the condition: "if state.last_incident"
StatusTestIncident ==
    /\ spc = "test_incident"
    /\ spc' = IF state.last_incident # None THEN "read_incident" ELSE "read_slack_status"
    /\ UNCHANGED <<config, state, now, pc, loc, cyc, hist, snap, call>>

\* line 285, asdict(state.last_incident): a second read of the field
StatusReadIncident ==
    /\ spc = "read_incident"
    /\ snap' = [snap EXCEPT !.last_incident = state.last_incident]
    /\ spc' = "read_slack_status"
    /\ UNCHANGED <<config, state, now, pc, loc, cyc, hist, call>>

\* line 286
StatusReadSlackStatus ==
    /\ spc = "read_slack_status"
    /\ snap' = [snap EXCEPT !.last_slack_status = state.last_slack_status]
    /\ spc' = "respond"
    /\ UNCHANGED <<config, state, now, pc, loc, cyc, hist, call>>

\* line 289: the payload is returned
StatusRespond ==
    /\ spc = "respond"
    /\ spc' = "idle"
    /\ UNCHANGED <<config, state, now, pc, loc, cyc, hist, snap, call>>

StatusStep ==
    \/ StatusBegin
    \/ StatusReadPoll
    \/ StatusReadIncidentRevision
    \/ StatusTestIncident
    \/ StatusReadIncident
    \/ StatusReadSlackStatus
    \/ StatusRespond

PollStep ==
    \/ FetchRollout
    \/ FetchErrorCount
    \/ RecordPoll
    \/ Evaluate
    \/ BuildIncident
    \/ Notify
    \/ SetIncidentRevision
    \/ SetIncident
    \/ SetSlackStatus
    \/ Emit
    \/ Except
    \/ Sleep

Next == PollStep \/ Tick

Spec == Init /\ [][Next]_vars

\* The poll loop with the status handler serving requests beside it; no
\* lock guards State (main.py has none).  The process starts at the last
\* instant of the clock, with no error source and no webhook configured
\* and a threshold of 0.
StatusConfig ==
    {c \in Config : c.loki_url = "" /\ c.error_threshold = 0
                    /\ c.rollout_window_minutes = 0
                    /\ c.slack_webhook_url = None}

InitStatus == Start(StatusConfig, {MaxTime})

NextStatus == PollStep \/ StatusStep

SpecStatus == InitStatus /\ [][NextStatus]_vars

\* The poll loop with no webhook configured (unset, or set to the empty
\* string): the notifier makes no network call.
SkipConfig ==
    {c \in Config : c.loki_url # "" /\ c.error_threshold = 1
                    /\ c.rollout_window_minutes = 0
                    /\ c.slack_webhook_url \in {None, Some("")}}

InitSkip == Start(SkipConfig, 0..MaxTime)

SpecSkip == InitSkip /\ [][Next]_vars

\* The poll loop under the scheduling of its thread: a step that can be
\* taken is taken (every blocking call carries a timeout).  The process
\* starts at the last instant of the clock.
InitLate == Start(MainConfig, {MaxTime})

FairSpec == InitLate /\ [][PollStep]_vars /\ WF_vars(PollStep)

\* The evaluator alone: one call of should_trigger_incident on every
\* threshold, window, evaluation time, error count and optional rollout
\* of the ranges below (the rollout's timestamp with or without a zone).
EvalTimes == 0..(MaxWindow + 1)
EvalCounts == 0..(MaxThreshold + 1)

EvalRollouts ==
    {None} \cup {Some([revision |-> r, time |-> [t |-> t, aware |-> a]]) :
                   r \in Revisions, t \in EvalTimes, a \in BOOLEAN}

InitEval ==
    /\ config \in {c \in Config : c.loki_url # "" /\ c.slack_webhook_url = None}
    /\ state = State0
    /\ now \in EvalTimes
    /\ spc = "idle"
    /\ snap = State0
    /\ call = NoCall
    /\ pc = "evaluate"
    /\ \E r \in EvalRollouts, c \in EvalCounts :
         loc = [Locals0 EXCEPT !.rollout = r, !.error_count = Some(c)]
    /\ cyc = Cycle0(State0)
    /\ hist = Hist0

SpecEval == InitEval /\ [][Evaluate]_vars

\* ------------------------------------------- the three callees, alone
\* One call of fetch_error_count, of fetch_rollout_info or of
\* send_slack_notification on every payload of the ranges below, wider than
\* the payloads of the poll loop above; pc is the place of the call in
\* poll_loop.

\* Every value of a Loki series: the numbers, text, NaN, infinity, null.
LokiValuesAny ==
    LokiValues \cup {[kind |-> k, halves |-> 0] : k \in {"inf", "null"}}

LokiResponsesAny ==
    LokiResponses
    \cup {[error |-> "", results |-> << <<v>> >>] : v \in LokiValuesAny}
    \cup {[error |-> "", results |-> << <<[kind |-> "num", halves |-> 2], v>> >>] :
            v \in LokiValuesAny}

\* Every shape of a ReplicaSet: owned by the deployment, by another one, by
\* both, by an owner of another kind; the revision absent or empty; the
\* timestamp absent, empty, Z-suffixed, with an offset, or unparseable.
OwnersAny ==
    {<<OwnerRef("payments-api")>>, <<OwnerRef("other")>>,
     <<OwnerRef("other"), OwnerRef("payments-api")>>,
     << [kind |-> "StatefulSet", name |-> "payments-api"] >>}

ReplicasAny ==
    {Replica(r, t) : r \in Revisions, t \in 0..MaxTime}
    \cup {[Replica("2", MaxTime) EXCEPT !.ownerReferences = o] : o \in OwnersAny}
    \cup {[Replica("2", MaxTime) EXCEPT !.revision = r] : r \in {None, Some("")}}
    \cup {[Replica("2", MaxTime) EXCEPT !.created_at = c] :
             c \in {None, Some(EmptyTimestamp),
                    Some([form |-> "offset", t |-> MaxTime]),
                    Some([form |-> "bad", t |-> 0])}}

RECURSIVE SeqsUpTo(_, _)
SeqsUpTo(S, n) ==
    IF n = 0 THEN {<<>>}
    ELSE LET shorter == SeqsUpTo(S, n - 1) IN
         shorter \cup {Append(q, x) : q \in shorter, x \in S}

KubeResponsesAny ==
    {[error |-> "HTTPError", items |-> <<>>]}
    \cup {[error |-> "", items |-> items] : items \in SeqsUpTo(ReplicasAny, MaxItems)}

\* The incidents build_incident makes for the configuration.
Incidents(cfg) ==
    {build_incident(cfg, r, utcnow(t), c, t) :
        r \in Revisions, t \in 0..MaxTime, c \in 0..MaxCount}

Calling(fn, arg) == [fn |-> fn, arg |-> Some(arg), done |-> FALSE, result |-> None]

InitCalls ==
    /\ state = State0
    /\ now \in 0..MaxTime
    /\ loc = Locals0
    /\ cyc = Cycle0(State0)
    /\ hist = Hist0
    /\ spc = "idle"
    /\ snap = State0
    /\ \/ /\ pc = "fetch_rollout"
          /\ config \in MainConfig
          /\ \E response \in KubeResponsesAny :
                call = Calling("fetch_rollout_info", response)
       \/ /\ pc = "fetch_error_count"
          /\ config \in Config
          /\ \E response \in LokiResponsesAny :
                call = Calling("fetch_error_count", response)
       \/ /\ pc = "notify"
          /\ config \in Config
          /\ \E incident \in Incidents(config), http \in HttpOutcomes :
                call = Calling("send_slack_notification",
                               [incident |-> incident, http |-> http])

Returned(result) == [call EXCEPT !.done = TRUE, !.result = Some(result)]

\* lines 100-126
CallFetchRolloutInfo ==
    /\ call.fn = "fetch_rollout_info" /\ ~call.done
    /\ call' = Returned(fetch_rollout_info(call.arg[1], config.target_deployment))
    /\ UNCHANGED <<config, state, now, pc, loc, cyc, hist, spc, snap>>

\* lines 129-162
CallFetchErrorCount ==
    /\ call.fn = "fetch_error_count" /\ ~call.done
    /\ call' = Returned(fetch_error_count(config, call.arg[1]))
    /\ UNCHANGED <<config, state, now, pc, loc, cyc, hist, spc, snap>>

\* lines 204-211
CallSendSlackNotification ==
    /\ call.fn = "send_slack_notification" /\ ~call.done
    /\ call' = Returned(send_slack_notification(config.slack_webhook_url,
                                                call.arg[1].incident,
                                                call.arg[1].http))
    /\ UNCHANGED <<config, state, now, pc, loc, cyc, hist, spc, snap>>

NextCalls ==
    CallFetchRolloutInfo \/ CallFetchErrorCount \/ CallSendSlackNotification

SpecCalls == InitCalls /\ [][NextCalls]_vars

\* ============================================================== claims
\* A cycle has ended when the loop stands at the sleep of line 252.
CycleEnded == pc = "sleep"

\* The cycle's verdict was trigger for a revision that differed from the
\* dedup key when line 243 compared them.
TriggeredNew == cyc.verdict # None /\ cyc.key_at_check # cyc.verdict

\* C1: dedup.  When one revision is the triggering rollout of consecutive
\* cycles, the first of them (the key differing from it) builds exactly one
\* Incident and makes exactly one notification attempt, and every following
\* one builds none and attempts none, whatever the notifier's outcome.
C1_DedupExactlyOnce ==
    CycleEnded =>
        /\ TriggeredNew /\ hist.prev_verdict # cyc.verdict
             => cyc.built = 1 /\ cyc.attempts = 1
        /\ cyc.verdict # None /\ hist.prev_verdict = cyc.verdict
             => cyc.built = 0 /\ cyc.attempts = 0

\* C2: a cycle that triggers for a revision different from the dedup key and
\* whose delivery fails still ends with the key set to that revision, the
\* built incident stored, the failure stored as the outcome, and the
\* incident written.
C2_DeliveryFailureStillRecords ==
    CycleEnded /\ TriggeredNew /\ cyc.notify_raised =>
        /\ state.last_incident_revision = cyc.verdict
        /\ state.last_incident = loc.incident
        /\ state.last_slack_status = Some(Error(loc.exc))
        /\ cyc.emitted = 1

\* C3 (as stated): no revision ever has two Incidents built for it.
C3_OncePerRevision ==
    [][BuildIncident => loc.revision[1] \notin hist.built_revs]_vars

\* C3 (amended): an Incident is built at most once in a cycle, and only for
\* a revision that is not the dedup key: no revision has a second Incident
\* built while it remains the key.
C3_NotBuiltWhileKey ==
    cyc.built > 0 =>
        /\ cyc.built = 1
        /\ cyc.verdict = Some(loc.incident[1].revision)
        /\ cyc.start.last_incident_revision # cyc.verdict

\* A second Incident for a revision, built after another revision's incident
\* was recorded in between.
C3_Witness ==
    /\ pc = "notify"
    /\ state.last_incident_revision # None
    /\ state.last_incident_revision # loc.revision
    /\ loc.revision[1] \in hist.emitted_revs

\* C4: re-arming.  A cycle whose verdict is trigger for a revision that
\* differs from last_incident_revision emits an incident for it and leaves
\* last_incident_revision equal to it.
C4_Rearming ==
    CycleEnded /\ TriggeredNew =>
        /\ cyc.emitted = 1
        /\ hist.stdout_last # None
        /\ Some(hist.stdout_last[1].revision) = cyc.verdict
        /\ state.last_incident_revision = cyc.verdict

\* C5: every payload the status handler returns has the dedup key and the
\* stored incident updated together: both empty, or the key equal to the
\* incident's revision.
C5_SnapshotConsistent ==
    spc = "respond" =>
        \/ snap.last_incident_revision = None /\ snap.last_incident = None
        \/ /\ snap.last_incident # None
           /\ snap.last_incident_revision = Some(snap.last_incident[1].revision)

\* last_incident_revision is set iff a record was written, and then names
\* the revision of the last record written.
KeyMatchesStdout ==
    /\ state.last_incident_revision = None <=> hist.emitted_revs = {}
    /\ state.last_incident_revision # None =>
         /\ state.last_incident_revision[1] \in hist.emitted_revs
         /\ hist.stdout_last # None
         /\ state.last_incident_revision = Some(hist.stdout_last[1].revision)

\* C6 (as stated): in every reachable state last_incident_revision is set
\* iff an Incident record was written for that revision.
C6_KeyIffEmitted == KeyMatchesStdout

\* C6 (amended): the same, in every state but those between the assignment
\* of line 246 and the print of line 249 of the emitting cycle.
C6_KeyIffEmittedOutsideRecording ==
    pc \notin {"set_incident", "set_slack_status", "emit"} => KeyMatchesStdout

\* A second revision's record was written: the key names it.
C6_Witness ==
    /\ CycleEnded
    /\ cyc.emitted = 1
    /\ Cardinality(hist.emitted_revs) = 2

\* C7: a failure of any step of a cycle is caught and stored in
\* last_slack_status, the loop then sleeps and starts another cycle; the
\* driver always has a next step and starts cycles infinitely often.
C7_DriverNeverStops ==
    /\ [](ENABLED PollStep)
    /\ [](CycleEnded /\ cyc.failed # "" =>
            state.last_slack_status = Some(Error(loc.exc)))
    /\ [](pc = "except" => <>(pc = "fetch_rollout"))
    /\ []<>(pc = "fetch_rollout")

\* A cycle whose notification raised has ended.
C7_Witness == CycleEnded /\ cyc.failed = "notify"

\* C8: should_trigger_incident returns trigger(revision, t) iff a rollout
\* is present, now - t <= window and count >= threshold, and no trigger
\* otherwise (rollout timestamps carrying a zone).
C8_TriggerIff ==
    pc # "evaluate" /\ (loc.rollout # None => loc.rollout[1].time.aware) =>
        LET fresh == /\ loc.rollout # None
                     /\ now - loc.rollout[1].time.t <= config.rollout_window_minutes
            enough == loc.error_count[1] >= config.error_threshold
        IN /\ cyc.evaluated
           /\ loc.trigger = IF fresh /\ enough THEN loc.rollout ELSE None

\* The window edge with the count at the threshold: a trigger.
C8_Witness ==
    /\ pc = "build"
    /\ config.rollout_window_minutes > 0
    /\ now - loc.rollout[1].time.t = config.rollout_window_minutes
    /\ loc.error_count[1] = config.error_threshold

\* C9: a cycle that does not emit (no trigger, or the triggered revision is
\* the dedup key) leaves last_incident_revision and last_incident unchanged,
\* makes no notification attempt and writes no record.
C9_NoEmitNoChange ==
    cyc.evaluated /\ (cyc.verdict = None \/ cyc.verdict = cyc.key_at_check) =>
        /\ state.last_incident_revision = cyc.start.last_incident_revision
        /\ state.last_incident = cyc.start.last_incident
        /\ cyc.built = 0
        /\ cyc.attempts = 0
        /\ cyc.posted = 0
        /\ cyc.emitted = 0

\* The key's revision triggers again with another error count than the one
\* stored in its incident.
C9_Witness ==
    /\ CycleEnded
    /\ cyc.verdict # None
    /\ cyc.verdict = cyc.key_at_check
    /\ state.last_incident # None
    /\ loc.error_count[1] # state.last_incident[1].error_count

\* C10: a cycle in which a fetch fails changes no State field but
\* last_slack_status, which receives the failure; it evaluates nothing,
\* builds, notifies and writes nothing, and the loop goes on.
C10_FetchFailureNoObservation ==
    cyc.failed \in {"fetch_rollout", "fetch_error_count"} =>
        /\ pc \in {"except", "sleep"}
        /\ ENABLED PollStep
        /\ state = [cyc.start EXCEPT !.last_slack_status = state.last_slack_status]
        /\ CycleEnded => state.last_slack_status = Some(Error(loc.exc))
        /\ ~cyc.evaluated
        /\ cyc.built = 0 /\ cyc.attempts = 0 /\ cyc.emitted = 0

\* The error-count fetch failed after the rollout fetch returned a rollout
\* other than the last one recorded.
C10_Witness ==
    /\ CycleEnded
    /\ cyc.failed = "fetch_error_count"
    /\ loc.rollout # None
    /\ cyc.start.last_rollout_revision # None
    /\ cyc.start.last_rollout_revision # Some(loc.rollout[1].revision)


\* ------------------------------------------------------------------ C11
\* The cycle got both of its observations and stored them (line 239 passed).
PollRecorded == cyc.fetched /\ pc # "record_poll"

\* The poll time and the error count stored are the cycle's own.
PollTimeAndCountStored ==
    /\ cyc.polled_at # None
    /\ state.last_poll_time = Some(isoformat(utcnow(cyc.polled_at[1])))
    /\ state.last_error_count = loc.error_count

\* The rollout stored is the one the cycle found.
RolloutStored ==
    /\ state.last_rollout_revision = Some(loc.rollout[1].revision)
    /\ state.last_rollout_time = Some(isoformat(loc.rollout[1].time))

\* C11 (as stated): once a cycle got both observations, last_poll_time,
\* last_error_count and the stored rollout revision and time all equal the
\* cycle's observations, also when the cycle found no rollout: the stored
\* rollout is then none.
C11_PollFieldsUnconditional ==
    PollRecorded =>
        /\ PollTimeAndCountStored
        /\ IF loc.rollout # None
           THEN RolloutStored
           ELSE /\ state.last_rollout_revision = None
                /\ state.last_rollout_time = None

\* C11 (amended): once a cycle got both observations, last_poll_time and
\* last_error_count equal the cycle's observations whether or not it
\* triggers; the stored rollout revision and time equal the rollout the cycle
\* found, and are those of the cycle's start when it found none.
C11_PollFieldsKeepLastRollout ==
    PollRecorded =>
        /\ PollTimeAndCountStored
        /\ IF loc.rollout # None
           THEN RolloutStored
           ELSE /\ state.last_rollout_revision = cyc.start.last_rollout_revision
                /\ state.last_rollout_time = cyc.start.last_rollout_time

\* A cycle that found no rollout has stored its poll while State still shows
\* the rollout of an earlier cycle.
C11_Witness ==
    /\ PollRecorded
    /\ pc = "sleep"
    /\ loc.rollout = None
    /\ state.last_rollout_revision # None
    /\ state.last_error_count # cyc.start.last_error_count


\* ------------------------------------------------------------------ C12
\* The call of the named function has returned or raised.
Called(fn) == call.fn = fn /\ call.done

\* The value the error count is read from (line 158), when there is one.
LatestValue(response) ==
    IF response.error # "" \/ response.results = <<>> \/ response.results[1] = <<>>
    THEN None
    ELSE Some(response.results[1][Len(response.results[1])])

Malformed(v) == v.kind \in {"text", "nan", "inf", "null"}

\* C12: with Loki configured and answering, a latest value that is
\* non-numeric text, null, NaN or infinity makes fetch_error_count return 0;
\* it does not raise.
C12_MalformedValueIsZero ==
    (/\ Called("fetch_error_count")
     /\ config.loki_url # ""
     /\ LatestValue(call.arg[1]) # None
     /\ Malformed(LatestValue(call.arg[1])[1]))
    => /\ call.result[1].raised = ""
       /\ call.result[1].value = Some(0)


\* ------------------------------------------------------------------ C13
\* No endpoint is configured: the webhook is absent or the empty string.
NoEndpoint == config.slack_webhook_url \in {None, Some("")}

\* C13: for every incident and every answer the network could give, the
\* notifier returns "skipped" iff no endpoint is configured; when it returns
\* "skipped" it made no network call and raised nothing.
C13_SkippedIffNoEndpoint ==
    Called("send_slack_notification") =>
        LET got == call.result[1] IN
        /\ (got.value = Some(Skipped)) <=> NoEndpoint
        /\ NoEndpoint => (~got.posted /\ got.raised = "")

\* The webhook is the empty string, the network would have failed, and the
\* notifier answered "skipped".
C13_Witness ==
    /\ Called("send_slack_notification")
    /\ config.slack_webhook_url = Some("")
    /\ call.arg[1].http.error # ""
    /\ call.result[1].value = Some(Skipped)

\* ------------------------------------------------------------------ C16
\* The objects of the list the claim selects among: owned by the deployment,
\* with a revision annotation and a creation timestamp.
Candidates(items, deployment) ==
    {i \in 1..Len(items) :
        /\ \E j \in 1..Len(items[i].ownerReferences) :
              items[i].ownerReferences[j] = OwnerRef(deployment)
        /\ items[i].revision \notin {None, Some("")}
        /\ items[i].created_at \notin {None, Some(EmptyTimestamp)}}

\* The candidate with the maximum timestamp, the first of them in list order.
LatestCandidate(items, cands) ==
    CHOOSE i \in cands :
        \A j \in cands :
            \/ items[j].created_at[1].t < items[i].created_at[1].t
            \/ items[j].created_at[1].t = items[i].created_at[1].t /\ i <= j

\* C16: when the API answers and every candidate's timestamp is RFC3339
\* with a zone, fetch_rollout_info returns nothing iff there is no candidate,
\* and else the revision and time of the candidate with the maximum
\* timestamp, the first in list order among equals; the other objects of the
\* list do not count.
C16_LatestOwnedReplica ==
    (/\ Called("fetch_rollout_info")
     /\ call.arg[1].error = ""
     /\ \A i \in Candidates(call.arg[1].items, config.target_deployment) :
           call.arg[1].items[i].created_at[1].form \in {"Z", "offset"})
    => LET items == call.arg[1].items
           cands == Candidates(items, config.target_deployment)
           got == call.result[1]
       IN /\ got.raised = ""
          /\ (got.value = None) <=> (cands = {})
          /\ cands # {} =>
                LET latest == items[LatestCandidate(items, cands)] IN
                got.value = Some([revision |-> latest.revision[1],
                                  time |-> [t |-> latest.created_at[1].t,
                                            aware |-> TRUE]])

\* Three objects: another deployment's with the latest timestamp, then two
\* candidates of different revisions with equal timestamps; the first of the
\* two was returned.
C16_Witness ==
    /\ Called("fetch_rollout_info")
    /\ call.arg[1].error = ""
    /\ Len(call.arg[1].items) = 3
    /\ call.arg[1].items[1].ownerReferences = <<OwnerRef("other")>>
    /\ Candidates(call.arg[1].items, config.target_deployment) = {2, 3}
    /\ call.arg[1].items[2].created_at = call.arg[1].items[3].created_at
    /\ call.arg[1].items[2].created_at[1].t < call.arg[1].items[1].created_at[1].t
    /\ call.arg[1].items[2].revision # call.arg[1].items[3].revision
    /\ call.result[1].value # None
    /\ call.result[1].value[1].revision = call.arg[1].items[2].revision[1]


\* ------------------------------------------------------------------ C14
\* The steps of lines 246-248 are under way: the key is set, the record of
\* line 249 not yet written.
Recording == pc \in {"set_incident", "set_slack_status", "emit"}

\* C14: a cycle builds before it notifies, notifies before it sets the key,
\* the incident and the outcome, and sets all three before it writes the
\* record, each once; a cycle writes a record only if it recorded an incident
\* and a cycle that recorded one has written its record when it ends; so the
\* key was set as many times as records were written, the one record of the
\* cycle that is between line 246 and line 249 excepted.
C14_BuildNotifyRecordEmit ==
    /\ pc = "notify" =>
          (cyc.built = 1 /\ cyc.attempts = 0 /\ ~cyc.recorded /\ cyc.emitted = 0)
    /\ pc = "set_incident_revision" =>
          (cyc.built = 1 /\ cyc.attempts = 1 /\ ~cyc.notify_raised
           /\ ~cyc.recorded /\ cyc.emitted = 0)
    /\ Recording =>
          (cyc.built = 1 /\ cyc.attempts = 1 /\ cyc.recorded /\ cyc.emitted = 0)
    /\ cyc.emitted > 0 =>
          /\ cyc.emitted = 1 /\ cyc.built = 1 /\ cyc.attempts = 1 /\ cyc.recorded
          /\ state.last_incident_revision = loc.revision
          /\ state.last_incident = loc.incident
          /\ state.last_slack_status = loc.slack_status
          /\ hist.stdout_last = loc.incident
    /\ CycleEnded => (cyc.recorded <=> cyc.emitted = 1)
    /\ hist.unemitted = IF Recording THEN 1 ELSE 0

\* A cycle has ended that wrote a record, not the first one of the process,
\* after a poll that wrote none.
C14_Witness ==
    /\ CycleEnded
    /\ cyc.emitted = 1
    /\ cyc.start.last_incident_revision # None
    /\ hist.prev_verdict = None
    /\ hist.unemitted = 0


\* ------------------------------------------------------------------ C15
\* The cycle is at, or past, the evaluation of line 240.
Evaluating == pc = "evaluate" \/ cyc.evaluated

\* C15: a cycle that evaluates has fetched both the rollout and the error
\* count itself, whatever the cycles before it did; its verdict is for the
\* rollout it fetched, and the incident it builds carries the revision and
\* time of that rollout and the error count it fetched.
C15_FreshObservations ==
    /\ (Evaluating \/ cyc.built > 0) =>
          (cyc.fetched_rollout /\ cyc.fetched /\ loc.error_count # None)
    /\ cyc.verdict # None =>
          (loc.rollout # None /\ cyc.verdict = Some(loc.rollout[1].revision))
    /\ loc.incident # None =>
          /\ loc.rollout # None
          /\ loc.incident[1].revision = loc.rollout[1].revision
          /\ loc.incident[1].rollout_time = isoformat(loc.rollout[1].time)
          /\ loc.incident[1].error_count = loc.error_count[1]

\* An earlier cycle failed after both fetches, in the notification; a later
\* cycle has built an incident for another revision than that cycle's.
C15_Witness ==
    /\ pc = "notify"
    /\ hist.pending # {}
    /\ loc.revision[1] \notin hist.pending
    /\ cyc.start.last_slack_status = Some(Error("HTTPError"))


\* ------------------------------------------------------------------ C17
\* C17: a cycle that triggered for a revision other than the dedup key and
\* whose notification raised ends with the poll time, the error count and the
\* rollout of that cycle stored, last_slack_status the description of the
\* error, last_incident_revision and last_incident as the cycle found them,
\* and no record written.
C17_RaisedNotificationFrame ==
    (CycleEnded /\ TriggeredNew /\ cyc.notify_raised) =>
        /\ PollTimeAndCountStored
        /\ RolloutStored
        /\ state.last_slack_status = Some(Error(loc.exc))
        /\ loc.exc # ""
        /\ state.last_incident_revision = cyc.start.last_incident_revision
        /\ state.last_incident = cyc.start.last_incident
        /\ ~cyc.recorded
        /\ cyc.emitted = 0
        /\ hist.stdout_last = cyc.start.last_incident

\* Such a cycle has ended, in a process that holds an earlier incident of
\* another revision and whose poll fields the cycle changed.
C17_Witness ==
    /\ CycleEnded /\ TriggeredNew /\ cyc.notify_raised
    /\ cyc.start.last_incident # None
    /\ cyc.start.last_rollout_revision # state.last_rollout_revision
    /\ cyc.start.last_error_count # state.last_error_count

\* ------------------------------------------------------------------ C18
\* C18: while a notification for R has raised and none has returned since,
\* R is not the dedup key; a cycle that starts in that situation and triggers
\* for R makes one notification attempt for R, and records and writes the
\* incident for R iff the attempt returns; a cycle that does not trigger for
\* R, or whose attempt raises, leaves R unrecorded and still waiting.
C18_RetryUntilReturned ==
    /\ \A R \in hist.pending : state.last_incident_revision # Some(R)
    /\ CycleEnded =>
          \A R \in cyc.pending :
              IF cyc.verdict = Some(R)
              THEN /\ cyc.built = 1 /\ cyc.attempts = 1
                   /\ loc.incident[1].revision = R
                   /\ IF cyc.notify_raised
                      THEN /\ ~cyc.recorded /\ cyc.emitted = 0
                           /\ R \in hist.pending
                      ELSE /\ cyc.recorded /\ cyc.emitted = 1
                           /\ state.last_incident_revision = Some(R)
                           /\ state.last_incident = loc.incident
                           /\ hist.stdout_last = loc.incident
                           /\ R \notin hist.pending
              ELSE /\ R \in hist.pending
                   /\ state.last_incident_revision # Some(R)
                   /\ (state.last_incident # cyc.start.last_incident
                         => state.last_incident[1].revision # R)

\* The notification for R raised in the cycle before; this cycle triggered
\* for R again, its notification returned and the incident for R is recorded
\* and written.
C18_Witness ==
    /\ CycleEnded
    /\ cyc.pending # {}
    /\ cyc.verdict # None
    /\ cyc.verdict[1] \in cyc.pending
    /\ cyc.recorded
    /\ cyc.emitted = 1
    /\ hist.prev_verdict = cyc.verdict
    /\ cyc.start.last_slack_status = Some(Error("HTTPError"))

\* The notification for R raised and R stopped triggering: another revision
\* triggered and was recorded while R still waits, unrecorded.
C18_WitnessStopped ==
    /\ CycleEnded
    /\ cyc.pending # {}
    /\ cyc.verdict # None
    /\ cyc.verdict[1] \notin cyc.pending
    /\ cyc.recorded
    /\ hist.pending = cyc.pending

====
